---- MODULE Spec2Model ----
(***************************************************************************)
(* Model of examples/reminder_service.py: the ReminderScheduler (its       *)
(* in-memory pending list, the ReminderStore file, the condition lock, the *)
(* background loop thread and the caller threads) as a state machine.      *)
(*                                                                         *)
(* A Reminder is modelled by the two fields the scheduler reads:           *)
(* identifier and due_time (message and created_at are compare=False and   *)
(* are never inspected by the scheduler).  Time is counted in clock ticks. *)
(*                                                                         *)
(* Spec and FairSpec are the scheduler in one process, RestartSpec is the  *)
(* scheduler over process restarts on one store file, and ParseSpec is a   *)
(* call of parse_vietnamese_reminder, with strings as character sequences. *)
(***************************************************************************)
EXTENDS Integers, Sequences, FiniteSets, TLC

\* ------------------------------------------------------------------ bounds
MaxReminders == 2   \* reminders in a run: those in the store file at start and those added
MaxPieces == 4      \* pieces of a command given to the parser

\* poll_resolution (the constructor's parameter), in clock ticks
PollResolution == 2

\* The threads that call the scheduler.  The condition lock serializes
\* add_reminder, remove_reminder and upcoming, so one thread stands for the
\* threads that call them; a second thread calls stop(), which sets the flag
\* outside the lock and then blocks in join().
Mutators == {"c1"}
Stoppers == {"c2"}
Callers == Mutators \cup Stoppers
\* the due times of the reminders of a run
DueTimes == {1, 2}
\* The clock is counted up to the latest due time.  From there on every reminder
\* is due whatever the clock says, and the program reads the clock for nothing
\* else, so later instants are not told apart (timeouts still run down).
Horizon == CHOOSE t \in DueTimes : \A u \in DueTimes : u <= t
Ids == 1..MaxReminders

VARIABLES
    clock,        \* dt.datetime.now()
    reminders,    \* ReminderScheduler._reminders
    disk,         \* the content of the store file (what load() would return)
    lock,         \* owner of ReminderScheduler._condition: "free", "loop" or a caller
    stopFlag,     \* ReminderScheduler._stop (threading.Event)
    loopPc,       \* position of the loop thread in _run_loop
    now,          \* _run_loop's local `now`
    due,          \* _run_loop's local `due`
    waitLeft,     \* ticks left of the timeout of the loop's condition.wait
    crashCause,   \* what raised out of _run_loop ("none" while it has not)
    cpc,          \* position of each caller thread
    cop,          \* the operation each caller is in, and the identifier it names
    carg,         \* the reminder that operation is about (a local of the call)
    cret,         \* what each caller's last operation returned
    calls,        \* the sink invocations so far, in order
    nextId,       \* the identifier the next created Reminder gets (uuid4: fresh)
    saveState,    \* outcome of the most recent ReminderStore.save: "none", "ok", "failed"
    removedIds,   \* identifiers of the reminders remove_reminder has returned
    poppedIds,    \* identifiers of the reminders the loop has popped for firing
    command,      \* parse_vietnamese_reminder's argument `command`
    reference,    \* parse_vietnamese_reminder's argument `reference`
    parsed        \* what parse_vietnamese_reminder returned or raised

vars == <<clock, reminders, disk, lock, stopFlag, loopPc, now, due, waitLeft,
          crashCause, cpc, cop, carg, cret, calls, nextId, saveState,
          removedIds, poppedIds, command, reference, parsed>>

schedulerVars == <<clock, reminders, disk, lock, stopFlag, loopPc, now, due, waitLeft,
                   crashCause, cpc, cop, carg, cret, calls, nextId, saveState,
                   removedIds, poppedIds>>
loopVars == <<loopPc, now, due, waitLeft, crashCause>>
callerVars == <<cpc, cop, carg, cret>>
ghostVars == <<removedIds, poppedIds>>
parserVars == <<command, reference, parsed>>

\* ------------------------------------------------------------ the Reminder
Reminder(i, d) == [identifier |-> i, due_time |-> d]
NoReminder == Reminder(0, 0)          \* Python's None for Optional[Reminder]

Min(a, b) == IF a < b THEN a ELSE b
Max(a, b) == IF a > b THEN a ELSE b

\* Reminder.__lt__ as generated by dataclass(order=True): due_time only
ReminderLess(a, b) == a.due_time < b.due_time

\* mutant of InsertByDue: the new element goes before its equals
RECURSIVE InsertBeforeEqual(_, _)
InsertBeforeEqual(s, r) ==
    IF s = <<>> THEN <<r>>
    ELSE IF ~ReminderLess(Head(s), r) THEN <<r>> \o s
    ELSE <<Head(s)>> \o InsertBeforeEqual(Tail(s), r)

\* where list.sort() puts an element appended to a sorted list: after every
\* element that is not greater (the sort is stable)
RECURSIVE InsertByDue(_, _)
InsertByDue(s, r) ==
    IF s = <<>> THEN <<r>>
    ELSE IF ReminderLess(r, Head(s)) THEN <<r>> \o s
    ELSE <<Head(s)>> \o InsertByDue(Tail(s), r)

\* list.sort() / sorted(): a stable sort by Reminder.__lt__
RECURSIVE SortByDue(_)
SortByDue(s) ==
    IF s = <<>> THEN <<>>
    ELSE InsertByDue(SortByDue(SubSeq(s, 1, Len(s) - 1)), s[Len(s)])

IsSorted(s) == \A i \in 1..(Len(s) - 1) : s[i].due_time <= s[i + 1].due_time

IdsOf(s) == {s[i].identifier : i \in 1..Len(s)}

\* mutant of RemoveAt: the element is read and left in the list
RemoveAtKeeps(s, idx) == s

\* list.pop(idx), with idx counted from 1
RemoveAt(s, idx) == SubSeq(s, 1, idx - 1) \o SubSeq(s, idx + 1, Len(s))

\* mutant of FindIndex: a scan that finds no match lands on the first element
FindIndexOrFirst(s, id) ==
    IF \E i \in 1..Len(s) : s[i].identifier = id
    THEN CHOOSE i \in 1..Len(s) : s[i].identifier = id
    ELSE IF s = <<>> THEN 0 ELSE 1

\* the scan of remove_reminder: the first index whose identifier matches, 0 if none
FindIndex(s, id) ==
    IF \E i \in 1..Len(s) : s[i].identifier = id
    THEN CHOOSE i \in 1..Len(s) :
            /\ s[i].identifier = id
            /\ \A j \in 1..(i - 1) : s[j].identifier # id
    ELSE 0

\* a call: the method's name and the identifier of its argument (0 if it has none)
Op(name, id) == [name |-> name, id |-> id]
NoOp == Op("none", 0)                 \* the caller is in no operation

\* what a caller's operation returned: "none" (None), "reminder", "list", "void",
\* or "raised" (an exception reached the caller; val is the reminder of the call)
Ret(kind, val) == [kind |-> kind, val |-> val]
NoRet == Ret("pending", <<>>)

\* ----------------------------------------------------------- construction
\* the store file at start: reminders with distinct identifiers (numbered in file
\* order), their due times in any order
LoadedFiles ==
    {f \in UNION {[1..n -> [identifier : Ids, due_time : DueTimes]] : n \in 0..MaxReminders} :
        \A i \in 1..Len(f) : f[i].identifier = i}

\* parse_vietnamese_reminder has not been called: no arguments, no outcome
NoArgument == <<>>
NotParsed == [kind |-> "none"]

\* ReminderScheduler.__init__: sorted(store.load()), then the thread is started
SchedulerInit ==
    /\ clock = 0
    /\ disk \in LoadedFiles
    /\ reminders = SortByDue(disk)
    /\ lock = "free"
    /\ stopFlag = FALSE
    /\ loopPc = "test_stop"
    /\ now = 0
    /\ due = NoReminder
    /\ waitLeft = 0
    /\ crashCause = "none"
    /\ cpc = [c \in Callers |-> "idle"]
    /\ cop = [c \in Callers |-> NoOp]
    /\ carg = [c \in Callers |-> NoReminder]
    /\ cret = [c \in Callers |-> NoRet]
    /\ calls = <<>>
    /\ nextId = Len(disk) + 1
    /\ saveState = "none"
    /\ removedIds = {}
    /\ poppedIds = {}

\* the scheduler as constructed, the parser not called
Init ==
    /\ SchedulerInit
    /\ command = NoArgument
    /\ reference = NoArgument
    /\ parsed = NotParsed

\* ------------------------------------------------------------------ clock
\* time passes; the timeout of a wait in progress runs down
Tick ==
    /\ \/ clock < Horizon
       \/ loopPc = "waiting" /\ waitLeft > 0
    /\ clock' = Min(clock + 1, Horizon)
    /\ waitLeft' = IF loopPc = "waiting" /\ waitLeft > 0 THEN waitLeft - 1 ELSE waitLeft
    /\ UNCHANGED <<parserVars, reminders, disk, lock, stopFlag, loopPc, now, due, crashCause,
                   cpc, cop, carg, cret, calls, nextId, saveState,
                   removedIds, poppedIds>>

\* mutant of NotifiedPc: the notification is lost
NotifiedPcLost(pc) == pc

\* Condition.notify_all(): a loop blocked in wait() is woken (it still has to
\* take the lock back before wait() returns)
NotifiedPc(pc) == IF pc = "waiting" THEN "woken" ELSE pc

\* ------------------------------------------------------- the loop thread
\* `while not self._stop.is_set()`: the loop returns, or starts an iteration with
\* `now = dt.datetime.now()` and `due = None`
LoopTestStop ==
    /\ loopPc = "test_stop"
    /\ IF stopFlag
       THEN /\ loopPc' = "exited"
            /\ UNCHANGED <<now, due>>
       ELSE /\ loopPc' = "check"
            /\ now' = clock
            /\ due' = NoReminder
    /\ UNCHANGED <<parserVars, clock, reminders, disk, lock, stopFlag, waitLeft, crashCause,
                   callerVars, calls, nextId, saveState, ghostVars>>

\* mutant of HeadIsDue: the head is taken one tick before its time
HeadIsDueEarly(s, t) == s # <<>> /\ s[1].due_time <= t + 1

\* `self._reminders and self._reminders[0].due_time <= now`
HeadIsDue(s, t) == s # <<>> /\ s[1].due_time <= t

\* `with self._condition:` and the due branch: `due = self._reminders.pop(0)`.
\* `now` is not read again before the next iteration assigns it
LoopPop ==
    /\ loopPc = "check"
    /\ lock = "free"
    /\ HeadIsDue(reminders, now)
    /\ lock' = "loop"
    /\ due' = reminders[1]
    /\ reminders' = RemoveAt(reminders, 1)
    /\ poppedIds' = poppedIds \cup {reminders[1].identifier}
    /\ loopPc' = "save"
    /\ now' = 0
    /\ UNCHANGED <<parserVars, clock, disk, stopFlag, waitLeft, crashCause, callerVars,
                   calls, nextId, saveState, removedIds>>

\* mutant of WaitTimeout: a wait with no timeout (never runs out)
WaitForever(s, t) == 0 - 1

\* the timeout of the else branch
WaitTimeout(s, t) ==
    IF s = <<>> THEN PollResolution
    ELSE Max(0, Min(s[1].due_time - t, PollResolution))

\* `with self._condition:` and the else branch up to `self._condition.wait(timeout)`,
\* which gives the lock up while it blocks.  `now` is not read again before the
\* next iteration assigns it
LoopWait ==
    /\ loopPc = "check"
    /\ lock = "free"
    /\ ~HeadIsDue(reminders, now)
    /\ waitLeft' = WaitTimeout(reminders, now)
    /\ loopPc' = "waiting"
    /\ now' = 0
    /\ UNCHANGED <<parserVars, clock, reminders, disk, lock, stopFlag, due, crashCause,
                   callerVars, calls, nextId, saveState, ghostVars>>

\* the timeout of the wait has run out
LoopTimeout ==
    /\ loopPc = "waiting"
    /\ waitLeft = 0
    /\ loopPc' = "woken"
    /\ UNCHANGED <<parserVars, clock, reminders, disk, lock, stopFlag, now, due, waitLeft,
                   crashCause, callerVars, calls, nextId, saveState, ghostVars>>

\* wait() takes the lock back and returns; `continue` leaves the with block
LoopResume ==
    /\ loopPc = "woken"
    /\ lock = "free"
    /\ loopPc' = "test_stop"
    /\ UNCHANGED <<parserVars, clock, reminders, disk, lock, stopFlag, now, due, waitLeft,
                   crashCause, callerVars, calls, nextId, saveState, ghostVars>>

\* mutant of LoopSave: the list is written as it was before the pop
LoopSaveBeforePop ==
    /\ loopPc = "save"
    /\ lock' = "free"
    /\ disk' = <<due>> \o reminders
    /\ saveState' = "ok"
    /\ loopPc' = "display"
    /\ UNCHANGED <<parserVars, clock, reminders, stopFlag, now, due, waitLeft, crashCause,
                   callerVars, calls, nextId, removedIds, poppedIds>>

\* mutant of LoopSave: the lock is kept over the sink calls
LoopSaveKeepsLock ==
    /\ loopPc = "save"
    /\ disk' = reminders
    /\ saveState' = "ok"
    /\ loopPc' = "display"
    /\ UNCHANGED <<parserVars, clock, reminders, lock, stopFlag, now, due, waitLeft, crashCause,
                   callerVars, calls, nextId, ghostVars>>

\* `self._store.save(self._reminders)` of the due branch, then the end of the with
\* block; save either writes the file or raises, and nothing in _run_loop catches
LoopSave ==
    /\ loopPc = "save"
    /\ lock' = "free"
    /\ \/ /\ disk' = reminders
          /\ saveState' = "ok"
          /\ loopPc' = "display"
          /\ UNCHANGED crashCause
       \/ /\ saveState' = "failed"
          /\ loopPc' = "crashed"
          /\ crashCause' = "save"
          /\ UNCHANGED disk
    /\ UNCHANGED <<parserVars, clock, reminders, stopFlag, now, due, waitLeft, callerVars,
                   calls, nextId, ghostVars>>

SinkCall(sink, r) == [sink |-> sink, identifier |-> r.identifier]

\* `self._display_callback(due)`: the callback returns or raises
LoopDisplay ==
    /\ loopPc = "display"
    /\ calls' = Append(calls, SinkCall("display", due))
    /\ \/ /\ loopPc' = "speak"
          /\ UNCHANGED crashCause
       \/ /\ loopPc' = "crashed"
          /\ crashCause' = "display"
    /\ UNCHANGED <<parserVars, clock, reminders, disk, lock, stopFlag, now, due, waitLeft,
                   callerVars, nextId, saveState, ghostVars>>

\* `self._speak_callback(due)`: the callback returns or raises; `due` is not read
\* again before the next iteration assigns it
LoopSpeak ==
    /\ loopPc = "speak"
    /\ calls' = Append(calls, SinkCall("speak", due))
    /\ \/ /\ loopPc' = "test_stop"
          /\ UNCHANGED crashCause
       \/ /\ loopPc' = "crashed"
          /\ crashCause' = "speak"
    /\ due' = NoReminder
    /\ UNCHANGED <<parserVars, clock, reminders, disk, lock, stopFlag, now, waitLeft,
                   callerVars, nextId, saveState, ghostVars>>

Loop ==
    \/ LoopTestStop
    \/ LoopPop
    \/ LoopWait
    \/ LoopTimeout
    \/ LoopResume
    \/ LoopSave
    \/ LoopDisplay
    \/ LoopSpeak

\* ----------------------------------------------------- the caller threads
\* mutant of AddInsert: the appended reminder is not sorted into place
AddInsertNoSort(s, r) == Append(s, r)

\* `self._reminders.append(reminder)` and `self._reminders.sort()`
AddInsert(s, r) == SortByDue(Append(s, r))

\* add_reminder with a Reminder the caller has built (a fresh uuid4 identifier):
\* `with self._condition:`, append and sort
AddBody(c, d) ==
    /\ c \in Mutators
    /\ cpc[c] = "idle"
    /\ nextId \in Ids
    /\ lock = "free"
    /\ lock' = c
    /\ reminders' = AddInsert(reminders, Reminder(nextId, d))
    /\ carg' = [carg EXCEPT ![c] = Reminder(nextId, d)]
    /\ cop' = [cop EXCEPT ![c] = Op("add", nextId)]
    /\ nextId' = nextId + 1
    /\ cpc' = [cpc EXCEPT ![c] = "save"]
    /\ cret' = [cret EXCEPT ![c] = NoRet]
    /\ UNCHANGED <<parserVars, clock, disk, stopFlag, loopVars, calls, saveState, ghostVars>>

\* remove_reminder(id): `with self._condition:` and the scan; a match is popped,
\* no match falls out of the with block and returns None
RemoveBody(c, id) ==
    /\ c \in Mutators
    /\ cpc[c] = "idle"
    /\ lock = "free"
    /\ LET idx == FindIndex(reminders, id) IN
          IF idx # 0
          THEN /\ carg' = [carg EXCEPT ![c] = reminders[idx]]
               /\ cop' = [cop EXCEPT ![c] = Op("remove", id)]
               /\ reminders' = RemoveAt(reminders, idx)
               /\ lock' = c
               /\ cpc' = [cpc EXCEPT ![c] = "save"]
               /\ cret' = [cret EXCEPT ![c] = NoRet]
          ELSE /\ cret' = [cret EXCEPT ![c] = Ret("none", <<>>)]
               /\ UNCHANGED <<cpc, cop, carg, reminders, lock>>
    /\ UNCHANGED <<parserVars, clock, disk, stopFlag, loopVars, calls, nextId,
                   saveState, ghostVars>>

\* mutant of CallerSave: a save that raises leaves the lock held
CallerSaveKeepsLock(c) ==
    /\ cpc[c] = "save"
    /\ \/ /\ disk' = reminders
          /\ saveState' = "ok"
          /\ cpc' = [cpc EXCEPT ![c] = "notify"]
          /\ UNCHANGED <<cop, carg, cret>>
       \/ /\ saveState' = "failed"
          /\ cpc' = [cpc EXCEPT ![c] = "idle"]
          /\ cret' = [cret EXCEPT ![c] = Ret("raised", <<carg[c]>>)]
          /\ cop' = [cop EXCEPT ![c] = NoOp]
          /\ carg' = [carg EXCEPT ![c] = NoReminder]
          /\ UNCHANGED disk
    /\ UNCHANGED <<parserVars, clock, reminders, lock, stopFlag, loopVars, calls,
                   nextId, removedIds, poppedIds>>

\* `self._store.save(self._reminders)` in add_reminder and remove_reminder: it
\* writes the file, or raises, which leaves the with block and reaches the caller
CallerSave(c) ==
    /\ cpc[c] = "save"
    /\ \/ /\ disk' = reminders
          /\ saveState' = "ok"
          /\ cpc' = [cpc EXCEPT ![c] = "notify"]
          /\ UNCHANGED <<lock, cop, carg, cret>>
       \/ /\ saveState' = "failed"
          /\ lock' = "free"
          /\ cpc' = [cpc EXCEPT ![c] = "idle"]
          /\ cret' = [cret EXCEPT ![c] = Ret("raised", <<carg[c]>>)]
          /\ cop' = [cop EXCEPT ![c] = NoOp]
          /\ carg' = [carg EXCEPT ![c] = NoReminder]
          /\ UNCHANGED disk
    /\ UNCHANGED <<parserVars, clock, reminders, stopFlag, loopVars, calls,
                   nextId, removedIds, poppedIds>>

\* `self._condition.notify_all()`, the end of the with block and the return
CallerNotify(c) ==
    /\ cpc[c] = "notify"
    /\ loopPc' = NotifiedPc(loopPc)
    /\ lock' = "free"
    /\ cpc' = [cpc EXCEPT ![c] = "idle"]
    /\ cret' = [cret EXCEPT ![c] = Ret("reminder", <<carg[c]>>)]
    /\ cop' = [cop EXCEPT ![c] = NoOp]
    /\ carg' = [carg EXCEPT ![c] = NoReminder]
    /\ removedIds' = IF cop[c].name = "remove"
                     THEN removedIds \cup {carg[c].identifier} ELSE removedIds
    /\ UNCHANGED <<parserVars, clock, reminders, disk, stopFlag, now, due, waitLeft,
                   crashCause, calls, nextId, saveState, poppedIds>>

\* upcoming(): `with self._condition: return list(self._reminders)`
Upcoming(c) ==
    /\ c \in Mutators
    /\ cpc[c] = "idle"
    /\ lock = "free"
    /\ cret' = [cret EXCEPT ![c] = Ret("list", reminders)]
    /\ UNCHANGED <<parserVars, clock, reminders, disk, lock, stopFlag, loopVars, cpc, cop,
                   carg, calls, nextId, saveState, ghostVars>>

\* stop(): `self._stop.set()`
StopCall(c) ==
    /\ c \in Stoppers
    /\ cpc[c] = "idle"
    /\ stopFlag' = TRUE
    /\ cop' = [cop EXCEPT ![c] = Op("stop", 0)]
    /\ carg' = [carg EXCEPT ![c] = NoReminder]
    /\ cret' = [cret EXCEPT ![c] = NoRet]
    /\ cpc' = [cpc EXCEPT ![c] = "acquire"]
    /\ UNCHANGED <<parserVars, clock, reminders, disk, lock, loopVars, calls, nextId,
                   saveState, ghostVars>>

\* stop(): `with self._condition: self._condition.notify_all()`
StopNotify(c) ==
    /\ cpc[c] = "acquire"
    /\ cop[c].name = "stop"
    /\ lock = "free"
    /\ loopPc' = NotifiedPc(loopPc)
    /\ cpc' = [cpc EXCEPT ![c] = "join"]
    /\ UNCHANGED <<parserVars, clock, reminders, disk, lock, stopFlag, now, due, waitLeft,
                   crashCause, cop, carg, cret, calls, nextId, saveState,
                   ghostVars>>

\* the loop thread is over: it returned, or an exception ended it
LoopOver == loopPc \in {"exited", "crashed"}

\* stop(): `self._thread.join()` returns once the loop thread is over
StopJoin(c) ==
    /\ cpc[c] = "join"
    /\ LoopOver
    /\ cpc' = [cpc EXCEPT ![c] = "idle"]
    /\ cop' = [cop EXCEPT ![c] = NoOp]
    /\ cret' = [cret EXCEPT ![c] = Ret("void", <<>>)]
    /\ UNCHANGED <<parserVars, clock, reminders, disk, lock, stopFlag, loopVars, carg,
                   calls, nextId, saveState, ghostVars>>

\* a caller starts an operation
CallerCall(c) ==
    \/ \E d \in DueTimes : AddBody(c, d)
    \/ \E id \in Ids : RemoveBody(c, id)
    \/ Upcoming(c)
    \/ StopCall(c)

\* a caller goes on with the operation it is in
CallerStep(c) ==
    \/ CallerSave(c)
    \/ CallerNotify(c)
    \/ StopNotify(c)
    \/ StopJoin(c)

Next ==
    \/ Tick
    \/ Loop
    \/ \E c \in Callers : CallerCall(c)
    \/ \E c \in Callers : CallerStep(c)

Spec == Init /\ [][Next]_vars

\* the loop thread and the callers inside an operation keep running, and time passes
FairSpec ==
    /\ Spec
    /\ WF_vars(Tick)
    /\ WF_vars(Loop)
    /\ WF_vars(\E c \in Callers : CallerStep(c))

\* ---------------------------------------------------- crash and restart
\* The process dies at any point (its threads, lock, flag and in-memory list go
\* with it) and a new process builds a ReminderScheduler on the same store file:
\* `self._reminders = sorted(self._store.load())`, then the thread is started.
\* The clock, the file and what the sinks have shown outlive the process, and
\* uuid4 identifiers stay fresh; the histories of returns and pops are those of
\* the running process and start empty.  save is modelled as writing the file whole: a
\* process killed inside write_text leaves a file load() cannot parse, and then
\* no scheduler is constructed at all.
Restart ==
    /\ reminders' = SortByDue(disk)
    /\ lock' = "free"
    /\ stopFlag' = FALSE
    /\ loopPc' = "test_stop"
    /\ now' = 0
    /\ due' = NoReminder
    /\ waitLeft' = 0
    /\ crashCause' = "none"
    /\ cpc' = [c \in Callers |-> "idle"]
    /\ cop' = [c \in Callers |-> NoOp]
    /\ carg' = [c \in Callers |-> NoReminder]
    /\ cret' = [c \in Callers |-> NoRet]
    /\ saveState' = "none"
    /\ removedIds' = {}
    /\ poppedIds' = {}
    /\ UNCHANGED <<parserVars, clock, disk, calls, nextId>>

RestartNext ==
    \/ Next
    \/ Restart

\* the scheduler over any number of process lives on one store file
RestartSpec == Init /\ [][RestartNext]_vars


\* ============================================== parse_vietnamese_reminder
\* A str is a sequence of characters; offsets are Python's (the first is 0).
\* ----------------------------------------------------------- str methods
Trigger == <<"n", "h", "ắ", "c", " ", "n", "h", "ở", " ", "t", "ô", "i">>   \* "nhắc nhở tôi"
Luc == <<"l", "ú", "c">>                                                   \* "lúc"
Gio == <<"g", "i", "ờ">>                                                   \* "giờ"
DefaultMessage == <<"N", "h", "ắ", "c", " ", "n", "h", "ở">>               \* "Nhắc nhở"

\* the characters of the commands considered: the letters of the words above, the
\* letter x for other words, the capitals of some of them, digits, blank, colon
UpperOf ==
    ("n" :> "N") @@ ("h" :> "H") @@ ("ắ" :> "Ắ") @@ ("c" :> "C") @@ ("ở" :> "Ở") @@
    ("t" :> "T") @@ ("ô" :> "Ô") @@ ("i" :> "I") @@ ("l" :> "L") @@ ("ú" :> "Ú") @@
    ("g" :> "G") @@ ("ờ" :> "Ờ") @@ ("x" :> "X")
Capitals == {UpperOf[c] : c \in DOMAIN UpperOf}
DigitValue == [c \in {"0", "1", "2", "3", "4", "5", "6", "7", "8", "9"} |->
                 CASE c = "0" -> 0 [] c = "1" -> 1 [] c = "2" -> 2 [] c = "3" -> 3
                   [] c = "4" -> 4 [] c = "5" -> 5 [] c = "6" -> 6 [] c = "7" -> 7
                   [] c = "8" -> 8 [] c = "9" -> 9]

IsDigit(c) == c \in DOMAIN DigitValue            \* \d
IsSpace(c) == c = " "                            \* \s, and what str.strip() strips
IsWordChar(c) == c \notin {" ", ":", ",", ".", "-"}   \* \w: letters and digits

\* str.lower() and str.upper() of one character
LowerChar(c) == IF c \in Capitals
                THEN CHOOSE l \in DOMAIN UpperOf : UpperOf[l] = c ELSE c
UpperChar(c) == IF c \in DOMAIN UpperOf THEN UpperOf[c] ELSE c

\* str.lower()
Lower(s) == [k \in 1..Len(s) |-> LowerChar(s[k])]

\* s[a:] and s[a:b]
SliceFrom(s, a) == SubSeq(s, a + 1, Len(s))
Slice(s, a, b) == SubSeq(s, a + 1, Min(b, Len(s)))

\* s.strip(chars): the longest run of chars is taken off either end
StripChars(s, chars) ==
    LET keep == {k \in 1..Len(s) : s[k] \notin chars} IN
    IF keep = {} THEN <<>>
    ELSE SubSeq(s, CHOOSE k \in keep : \A j \in keep : k <= j,
                   CHOOSE k \in keep : \A j \in keep : j <= k)

\* s.strip()
Strip(s) == StripChars(s, {" "})

\* sub occurs in s at offset a
OccursAt(s, sub, a) ==
    /\ a >= 0
    /\ a + Len(sub) <= Len(s)
    /\ \A k \in 1..Len(sub) : s[a + k] = sub[k]

\* s.find(sub): the least offset at which sub occurs, -1 when there is none
\* (`sub in s` is find # -1, and s.index(sub) is find where sub occurs)
Find(s, sub) ==
    LET hits == {a \in 0..Len(s) : OccursAt(s, sub, a)} IN
    IF hits = {} THEN 0 - 1 ELSE CHOOSE a \in hits : \A b \in hits : a <= b

\* ------------------------------------------------------ the two patterns
\* a match: its span in the searched string and its two groups (<<>> for a
\* group that took no part)
Match(start, end, hour, minute) ==
    [start |-> start, end |-> end, hour |-> hour, minute |-> minute]
NoMatch == Match(0 - 1, 0 - 1, <<>>, <<>>)

\* `\s*` from offset a: the offset after the blanks there
SkipSpaces(s, a) ==
    CHOOSE b \in a..Len(s) :
        /\ \A k \in (a + 1)..b : IsSpace(s[k])
        /\ b = Len(s) \/ ~IsSpace(s[b + 1])

\* `\d{1,2}` at offset a: how many digits it takes (0: no match)
CountDigits(s, a) ==
    IF a < Len(s) /\ IsDigit(s[a + 1])
    THEN IF a + 1 < Len(s) /\ IsDigit(s[a + 2]) THEN 2 ELSE 1
    ELSE 0

\* int() of one or two digits
ToInt(ds) ==
    IF Len(ds) = 1 THEN DigitValue[ds[1]]
    ELSE 10 * DigitValue[ds[1]] + DigitValue[ds[2]]

\* r"lúc\s*(\d{1,2})\s*[:]\s*(\d{1,2})" tried at offset a.  Giving back a digit
\* or a blank never lets the rest match, so the greedy choice decides
ColonMatchAt(s, a) ==
    LET p2 == SkipSpaces(s, a + Len(Luc))
        n  == CountDigits(s, p2)
        p3 == SkipSpaces(s, p2 + n)
        p4 == SkipSpaces(s, p3 + 1)
        m  == CountDigits(s, p4)
    IN  IF /\ OccursAt(s, Luc, a)
           /\ n >= 1
           /\ p3 < Len(s)
           /\ s[p3 + 1] = ":"
           /\ m >= 1
        THEN Match(a, p4 + m, Slice(s, p2, p2 + n), Slice(s, p4, p4 + m))
        ELSE NoMatch

\* r"lúc\s*(\d{1,2})(?:\s*(?:giờ|h))?(?:\s*(\d{1,2}))?" tried at offset a: each
\* optional group is taken when it matches
SimpleMatchAt(s, a) ==
    LET p2 == SkipSpaces(s, a + Len(Luc))
        n  == CountDigits(s, p2)
        p3 == p2 + n
        q  == SkipSpaces(s, p3)
        p4 == IF OccursAt(s, Gio, q) THEN q + Len(Gio)
              ELSE IF OccursAt(s, <<"h">>, q) THEN q + 1
              ELSE p3
        r  == SkipSpaces(s, p4)
        m  == CountDigits(s, r)
    IN  IF OccursAt(s, Luc, a) /\ n >= 1
        THEN Match(a, IF m >= 1 THEN r + m ELSE p4, Slice(s, p2, p3),
                   IF m >= 1 THEN Slice(s, r, r + m) ELSE <<>>)
        ELSE NoMatch

\* re.search with either pattern: the match at the least offset that has one
ColonSearch(s) ==
    LET hits == {a \in 0..Len(s) : ColonMatchAt(s, a) # NoMatch} IN
    IF hits = {} THEN NoMatch
    ELSE ColonMatchAt(s, CHOOSE a \in hits : \A b \in hits : a <= b)
SimpleSearch(s) ==
    LET hits == {a \in 0..Len(s) : SimpleMatchAt(s, a) # NoMatch} IN
    IF hits = {} THEN NoMatch
    ELSE SimpleMatchAt(s, CHOOSE a \in hits : \A b \in hits : a <= b)

\* ------------------------------------------------------ the message text
\* r"\blúc\b" with re.IGNORECASE matches at offset a
LucWordAt(s, a) ==
    /\ a + Len(Luc) <= Len(s)
    /\ \A k \in 1..Len(Luc) : LowerChar(s[a + k]) = Luc[k]
    /\ a = 0 \/ ~IsWordChar(s[a])
    /\ a + Len(Luc) = Len(s) \/ ~IsWordChar(s[a + Len(Luc) + 1])

\* re.sub(r"\blúc\b", "", s, flags=re.IGNORECASE), from offset a on
RECURSIVE SubLuc(_, _)
SubLuc(s, a) ==
    IF a >= Len(s) THEN <<>>
    ELSE IF LucWordAt(s, a) THEN SubLuc(s, a + Len(Luc))
    ELSE <<s[a + 1]>> \o SubLuc(s, a + 1)

\* re.sub(r"\s{2,}", " ", s), from the k-th character on: of a run of blanks
\* the first stays
RECURSIVE CollapseSpaces(_, _)
CollapseSpaces(s, k) ==
    IF k > Len(s) THEN <<>>
    ELSE IF IsSpace(s[k]) /\ k > 1 /\ IsSpace(s[k - 1]) THEN CollapseSpaces(s, k + 1)
    ELSE <<s[k]>> \o CollapseSpaces(s, k + 1)

\* message[0].upper() + message[1:]
Capitalize(s) == IF s = <<>> THEN s ELSE <<UpperChar(s[1])>> \o Tail(s)

\* ------------------------------------------------------------ datetimes
\* a dt.datetime: the date as a day number, and the time of day
DateTime(day, hour, minute, second, microsecond) ==
    [day |-> day, hour |-> hour, minute |-> minute, second |-> second,
     microsecond |-> microsecond]

\* the seconds of a datetime since day 0 (microseconds apart)
SecondsOf(t) == ((t.day * 24 + t.hour) * 60 + t.minute) * 60 + t.second

\* a < b and a <= b on datetimes
DtLess(a, b) ==
    \/ SecondsOf(a) < SecondsOf(b)
    \/ SecondsOf(a) = SecondsOf(b) /\ a.microsecond < b.microsecond
DtLessEq(a, b) == a = b \/ DtLess(a, b)

\* t + dt.timedelta(days=1)
AddDay(t) == [t EXCEPT !.day = @ + 1]

\* t.replace(hour=hour, minute=minute, second=0, microsecond=0)
ReplaceTime(t, hour, minute) ==
    [t EXCEPT !.hour = hour, !.minute = minute, !.second = 0, !.microsecond = 0]

\* -------------------------------------------------------------- the parser
\* `raise ValueError(text)` and `return Reminder(due_time=due, message=message)`
ValueError(text) == [kind |-> "raised", text |-> text]
ParsedReminder(due_time, message) ==
    [kind |-> "reminder", due_time |-> due_time, message |-> message]

NoTriggerText == "Không tìm thấy cụm 'nhắc nhở tôi' trong câu lệnh."
NoTimeText == "Không tìm thấy thời gian hợp lệ trong câu lệnh."
BadHourText == "Giờ không hợp lệ."
BadMinuteText == "Phút không hợp lệ."

\* mutant of HourInRange: the hour is not checked
HourUnchecked(hour) == TRUE

\* `0 <= hour <= 23` and `0 <= minute <= 59`
HourInRange(hour) == 0 <= hour /\ hour <= 23
MinuteInRange(minute) == 0 <= minute /\ minute <= 59

\* `command.lower().strip()`
Normalized(cmd) == Strip(Lower(cmd))

\* colon_match if it matched, else simple_match (NoMatch when neither did)
TimeMatch(normalized) ==
    LET colon_match == ColonSearch(normalized) IN
    IF colon_match # NoMatch THEN colon_match
    ELSE SimpleSearch(normalized)

\* `int(match.group(1))`, and `int(match.group(2))` or `int(match.group(2) or 0)`
HourOf(m) == ToInt(m.hour)
MinuteOf(m) == IF m.minute = <<>> THEN 0 ELSE ToInt(m.minute)

\* `message_original = command[start_index:]`, start_index being the end of the
\* trigger phrase in `normalized`
MessageOriginal(cmd) ==
    LET normalized == Normalized(cmd)
        start_index == Find(normalized, Trigger) + Len(Trigger)
    IN  SliceFrom(cmd, start_index)

\* the time fragment is cut out of message_original where its lowercase has it
ExciseFragment(message_original, time_fragment) ==
    LET fragment_pos == Find(Lower(message_original), Lower(time_fragment)) IN
    IF fragment_pos # 0 - 1
    THEN Slice(message_original, 0, fragment_pos)
            \o SliceFrom(message_original, fragment_pos + Len(time_fragment))
    ELSE message_original

\* the two re.sub calls, the strips, the capital and the default text
CleanMessage(message_original) ==
    LET stripped == StripChars(SubLuc(message_original, 0), {" ", ",", ".", ":", "-"})
        message == Capitalize(Strip(CollapseSpaces(stripped, 1)))
    IN  IF message = <<>> THEN DefaultMessage ELSE message

\* mutant of DueTime: the roll to the next day only when the time is earlier
DueTimeStrictRoll(ref, hour, minute) ==
    LET due_time == ReplaceTime(ref, hour, minute) IN
    IF DtLess(due_time, ref) THEN AddDay(due_time) ELSE due_time

\* `due = reference.replace(...)`, `if due <= reference: due += timedelta(days=1)`
DueTime(ref, hour, minute) ==
    LET due_time == ReplaceTime(ref, hour, minute) IN
    IF DtLessEq(due_time, ref) THEN AddDay(due_time) ELSE due_time

\* parse_vietnamese_reminder(command, reference)
ParseVietnameseReminder(cmd, ref) ==
    LET normalized == Normalized(cmd)
        m == TimeMatch(normalized)
        time_fragment == Slice(normalized, m.start, m.end)
    IN  IF Find(normalized, Trigger) = 0 - 1 THEN ValueError(NoTriggerText)
        ELSE IF m = NoMatch THEN ValueError(NoTimeText)
        ELSE IF ~HourInRange(HourOf(m)) THEN ValueError(BadHourText)
        ELSE IF ~MinuteInRange(MinuteOf(m)) THEN ValueError(BadMinuteText)
        ELSE ParsedReminder(
                 DueTime(ref, HourOf(m), MinuteOf(m)),
                 CleanMessage(ExciseFragment(MessageOriginal(cmd), time_fragment)))

\* ------------------------------------------------- the calls of the parser
\* what commands are made of: a blank, "Nhắc nhở tôi", "lúc", "lúc 7", numbers
\* that are no hour or no minute, the colon, the units, another word
Pieces ==
    {<<" ">>, Capitalize(Trigger), Luc, Luc \o <<" ", "7">>, <<"2", "5">>,
     <<"6", "1">>, <<":">>, <<"h">>, Gio, <<"x">>}

RECURSIVE Flatten(_)
Flatten(ps) == IF ps = <<>> THEN <<>> ELSE Head(ps) \o Flatten(Tail(ps))

\* every command of at most MaxPieces pieces
TextCommands ==
    {Flatten(ps) : ps \in UNION {[1..n -> Pieces] : n \in 0..MaxPieces}}

\* the decimal numeral of n < 100
DigitOf(d) == CHOOSE c \in DOMAIN DigitValue : DigitValue[c] = d
Numeral(n) == IF n < 10 THEN <<DigitOf(n)>> ELSE <<DigitOf(n \div 10), DigitOf(n % 10)>>

\* "nhắc nhở tôi x lúc H:M" for every time of day
ClockCommands ==
    {Trigger \o <<" ", "x", " ">> \o Luc \o <<" ">> \o Numeral(h) \o <<":">> \o Numeral(m) :
        h \in 0..23, m \in 0..59}

\* reference times around the clock, on the full minute and off it
References ==
    {DateTime(0, h, m, sus[1], sus[2]) :
        h \in {0, 12, 23}, m \in {0, 59}, sus \in {<<0, 0>>, <<0, 1>>, <<30, 0>>}}
Noon == DateTime(0, 12, 0, 0, 0)

\* a call of parse_vietnamese_reminder(command, reference), no scheduler involved
ParseInit ==
    /\ SchedulerInit
    /\ disk = <<>>
    /\ \/ command \in TextCommands /\ reference = Noon
       \/ command \in ClockCommands /\ reference \in References
    /\ parsed = NotParsed

\* the call returns or raises
Parse ==
    /\ parsed = NotParsed
    /\ parsed' = ParseVietnameseReminder(command, reference)
    /\ UNCHANGED <<command, reference, schedulerVars>>

ParseSpec == ParseInit /\ [][Parse]_vars

\* ================================================================ claims
DisplayCount(i) ==
    Cardinality({k \in 1..Len(calls) : calls[k] = [sink |-> "display", identifier |-> i]})
SpeakCount(i) ==
    Cardinality({k \in 1..Len(calls) : calls[k] = [sink |-> "speak", identifier |-> i]})

\* the loop is in the iteration that fires reminder i
Delivering(i) == loopPc \in {"save", "display", "speak"} /\ due.identifier = i

\* every speak call comes right after the display call for the same reminder
SpeakFollowsDisplay ==
    \A k \in 1..Len(calls) :
        calls[k].sink = "speak" =>
            /\ k > 1
            /\ calls[k - 1] = [sink |-> "display", identifier |-> calls[k].identifier]

\* Lemma (holds): no sink is ever invoked twice with a reminder, and speak is only
\* invoked after display.
DeliveryAtMostOnceInOrder ==
    /\ SpeakFollowsDisplay
    /\ \A i \in Ids : DisplayCount(i) <= 1 /\ SpeakCount(i) <= 1

\* C1: every reminder the loop fires is passed to display exactly once and to speak
\* exactly once, display first, and never a second time: once the loop has left
\* the iteration that delivers a reminder, both sinks have been invoked with it.
C1_DeliveredExactlyOnce ==
    /\ DeliveryAtMostOnceInOrder
    /\ \A i \in Ids :
          (DisplayCount(i) >= 1 /\ ~Delivering(i)) =>
              (DisplayCount(i) = 1 /\ SpeakCount(i) = 1)

\* C2 as claimed: whenever the lock is free and some save has been made, the store
\* file equals the in-memory pending list.
C2_DiskEqualsMemory ==
    (lock = "free" /\ saveState # "none") => disk = reminders

\* C2 amended: whenever the lock is free and the most recent save did not raise,
\* the store file equals the in-memory pending list.
C2_DiskEqualsMemoryAfterSave ==
    (lock = "free" /\ saveState = "ok") => disk = reminders

\* a fire and then an add_reminder have completed, the added reminder is pending,
\* and the file equals the list
C2_Witness ==
    \E c \in Callers :
        /\ cret[c].kind = "reminder"
        /\ cret[c].val[1].identifier \in IdsOf(reminders)
        /\ poppedIds # {}
        /\ lock = "free"
        /\ saveState = "ok"
        /\ disk = reminders

\* C3: the pending list, and so every list upcoming() returns, is sorted in
\* non-decreasing order of due_time.
C3_UpcomingSorted ==
    /\ IsSorted(reminders)
    /\ \A c \in Callers : cret[c].kind = "list" => IsSorted(cret[c].val)

\* upcoming() has returned a list whose order is not the order of arrival
C3_Witness ==
    \E c \in Callers :
        /\ cret[c].kind = "list"
        /\ Len(cret[c].val) >= 2
        /\ cret[c].val[1].identifier > cret[c].val[2].identifier
        /\ cret[c].val[1].due_time < cret[c].val[2].due_time

\* reminder i is pending and its due time has come
PendingDue(i) ==
    \E k \in 1..Len(reminders) :
        reminders[k].identifier = i /\ reminders[k].due_time <= clock

\* reminder i has been popped and passed to display and to speak
Delivered(i) ==
    /\ i \notin IdsOf(reminders)
    /\ DisplayCount(i) = 1
    /\ SpeakCount(i) = 1

\* reminder i has left the pending list and it is not the loop that popped it
RemovedByCaller(i) == i \notin IdsOf(reminders) /\ i \notin poppedIds

SinkRaised == crashCause \in {"display", "speak"}

\* C4: a pending reminder whose due time has come is eventually popped and passed
\* to display and speak, unless it is removed, stop() is called or a sink does not
\* return.
C4_DueReminderIsFired ==
    \A i \in Ids :
        PendingDue(i) ~> (Delivered(i) \/ RemovedByCaller(i) \/ stopFlag \/ SinkRaised)

\* Lemma (holds under FairSpec): the only way a due reminder is not fired is that
\* an exception has ended the loop thread.
DueReminderIsFiredUnlessLoopDied ==
    \A i \in Ids :
        PendingDue(i) ~> (Delivered(i) \/ RemovedByCaller(i) \/ stopFlag
                            \/ loopPc = "crashed")

\* C5: a reminder remove_reminder has returned is never passed to a sink, is not
\* popped by the loop, and is in neither the pending list nor the store file.
C5_FiredAndRemovedExclusive ==
    \A i \in removedIds :
        /\ i \notin poppedIds
        /\ DisplayCount(i) = 0
        /\ SpeakCount(i) = 0
        /\ i \notin IdsOf(reminders)
        /\ i \notin IdsOf(disk)

\* remove_reminder has returned a reminder, its due time has come since, and the
\* loop has gone through a check without firing it
C5_Witness ==
    \E c \in Callers :
        /\ cret[c].kind = "reminder"
        /\ cret[c].val[1].identifier \in removedIds
        /\ cret[c].val[1].due_time <= clock
        /\ loopPc = "waiting"
        /\ waitLeft = PollResolution

\* C6: remove_reminder with an identifier that is not pending returns None, leaves
\* the pending list as it is, makes no save and leaves the store file as it is.
C6_RemoveNotFoundChangesNothing ==
    [][\A c \in Mutators, id \in Ids :
          (RemoveBody(c, id) /\ id \notin IdsOf(reminders)) =>
              /\ cret'[c] = Ret("none", <<>>)
              /\ cpc'[c] = "idle"
              /\ reminders' = reminders
              /\ disk' = disk
              /\ saveState' = saveState
              /\ lock' = lock]_vars

\* remove_reminder has returned None while reminders were pending and another
\* had been removed or fired
C6_Witness ==
    \E c \in Callers :
        /\ cret[c] = Ret("none", <<>>)
        /\ reminders # <<>>
        /\ removedIds \cup poppedIds # {}

\* C7: an exception of the display or of the speak callback does not end the loop
\* thread, and a display call is followed by the speak call for the same reminder.
C7_SinkFailureIsIsolated ==
    /\ ~(loopPc = "crashed" /\ SinkRaised)
    /\ \A i \in Ids : (DisplayCount(i) >= 1 /\ ~Delivering(i)) => SpeakCount(i) >= 1

\* C8: a save that raises while the loop fires a reminder does not end the loop
\* thread.
C8_FireSaveFailureIsConfined ==
    ~(loopPc = "crashed" /\ crashCause = "save")

C10_StopTerminates ==
    \A c \in Stoppers :
        (cop[c].name = "stop") ~> (LoopOver /\ cret[c].kind = "void")

\* stop() set the flag and notified before the loop began to wait: the loop now
\* waits with the flag set, and stop() is blocked in join()
C10_Witness ==
    \E c \in Stoppers :
        /\ cpc[c] = "join"
        /\ stopFlag
        /\ loopPc = "waiting"
        /\ waitLeft > 0

\* ---------------------------------------------------------------- C11
\* stop() has returned
StopReturned == \E c \in Stoppers : cret[c].kind = "void"

\* C11: at the moment stop() returns, every reminder the loop has popped for
\* firing has had both display and speak invoked (none is popped but undelivered,
\* none displayed but not spoken).
C11_StopIsGraceful ==
    StopReturned =>
        \A i \in poppedIds : DisplayCount(i) = 1 /\ SpeakCount(i) = 1

\* what the code does give: when stop() returns from a loop that has left through
\* its stop test, every popped reminder has had both sinks
StopAfterCleanExitIsGraceful ==
    (StopReturned /\ loopPc = "exited") =>
        \A i \in poppedIds : DisplayCount(i) = 1 /\ SpeakCount(i) = 1

\* what the code does give: a loop that wakes from its wait with the stop flag
\* set goes to the stop test and from there out, popping nothing
WokenLoopChecksStopFirst ==
    [][/\ (loopPc = "woken" /\ loopPc' # "woken" => loopPc' = "test_stop")
       /\ (loopPc = "test_stop" /\ stopFlag /\ loopPc' # "test_stop"
              => loopPc' = "exited" /\ poppedIds' = poppedIds)]_vars

\* ---------------------------------------------------------------- C12
\* the loop is inside a sink call (or between the two)
InSinkCall == loopPc \in {"display", "speak"}

\* C12: the loop never holds the condition lock while it invokes display or
\* speak; during a sink call upcoming() can take the lock and return, and an
\* add_reminder/remove_reminder that is inside its locked section can go on.
C12_SinksRunUnlocked ==
    InSinkCall =>
        /\ lock # "loop"
        /\ \A c \in Mutators :
              IF cpc[c] = "idle" THEN ENABLED Upcoming(c) ELSE ENABLED CallerStep(c)

\* a caller holds the lock while the loop is inside a sink call
C12_Witness == InSinkCall /\ lock \in Mutators

\* ---------------------------------------------------------------- C13
\* the step in which add_reminder/remove_reminder of caller c returns its reminder
MutationReturns(c) == cpc[c] = "notify" /\ cpc'[c] = "idle"

\* the step in which the loop starts to wait
WaitBegins == loopPc # "waiting" /\ loopPc' = "waiting"

\* C13: no lost wake-up.  At the step in which a mutation returns, the loop is
\* not left waiting (a waiting loop is woken, any other loop has yet to inspect the
\* list), and every wait begins with the lock free, on a timeout computed from
\* the list as it is then; so no wait outlives a returned mutation of the list
\* its timeout was computed from.
C13_NoLostWakeup ==
    [][/\ \A c \in Mutators : MutationReturns(c) => loopPc' # "waiting"
       /\ WaitBegins =>
             /\ lock = "free" /\ lock' = "free"
             /\ reminders' = reminders
             /\ waitLeft' = WaitTimeout(reminders', now)]_vars

\* add_reminder has returned a reminder that is now the earliest of several, and
\* the loop has been woken from a wait whose timeout had not run out
C13_Witness ==
    \E c \in Mutators :
        /\ cret[c].kind = "reminder"
        /\ Len(reminders) >= 2
        /\ reminders[1] = cret[c].val[1]
        /\ loopPc = "woken"
        /\ waitLeft > 0

\* ---------------------------------------------------------------- C18
\* the step in which the loop pops a reminder for firing
LoopPops == poppedIds' # poppedIds

\* C18: no early firing.  The loop pops a reminder only in a step at which the
\* reminder's due_time is not later than the clock, and a reminder in delivery
\* is one whose due_time has come.
C18_NoEarlyFiring ==
    [][/\ LoopPops => due' = reminders[1] /\ reminders[1].due_time <= clock
       /\ \A i \in Ids : Delivering(i)' => due'.due_time <= clock']_vars

\* a reminder has been popped at its due time while the next one is not due yet
C18_Witness ==
    /\ loopPc = "save"
    /\ due.due_time = clock
    /\ reminders # <<>>
    /\ reminders[1].due_time > clock

\* ---------------------------------------------------------------- C19
\* a fires before b: an earlier due_time, or the same due_time and added first
\* (identifiers are given in file order at load and in call order by add_reminder)
FiresBefore(a, b) ==
    \/ a.due_time < b.due_time
    \/ a.due_time = b.due_time /\ a.identifier < b.identifier

\* C19: whenever the loop fires a reminder, no pending reminder has a strictly
\* earlier due_time, and among reminders with the same due_time the one that was
\* added first is the one fired.
C19_FiringOrder ==
    [][LoopPops =>
          \A k \in 1..Len(reminders') : FiresBefore(due', reminders'[k])]_vars

\* a reminder has been popped while a reminder with the same due_time, which
\* add_reminder returned later, stays pending
C19_Witness ==
    /\ loopPc = "save"
    /\ reminders # <<>>
    /\ reminders[1].due_time = due.due_time
    /\ \E c \in Mutators : cret[c].kind = "reminder" /\ cret[c].val[1] = reminders[1]

\* ---------------------------------------------------------------- C14
\* the step in which add_reminder of caller c returns its reminder
AddReturns(c) == cop[c].name = "add" /\ cpc[c] = "notify" /\ cpc'[c] = "idle"

\* the display call for reminder i has started
DisplayStarted(i) == DisplayCount(i) >= 1

ParseReturned == parsed.kind = "reminder"

\* the time the command names, as the parser reads it
ParsedHour == HourOf(TimeMatch(Normalized(command)))
ParsedMinute == MinuteOf(TimeMatch(Normalized(command)))

\* the clock time hour:minute:00 on the reference date is not later than reference
ClockTimeHasPassed ==
    \/ ParsedHour < reference.hour
    \/ ParsedHour = reference.hour /\ ParsedMinute <= reference.minute

\* C15: the due time the parser returns has the parsed hour and minute, second
\* 0 and microsecond 0, is strictly later than the reference time and at most 24
\* hours after it; it is on the day after the reference date when the clock time
\* on the reference date is not later than the reference time, else on that date.
C15_DueTimeIsNextOccurrence ==
    ParseReturned =>
        /\ parsed.due_time.hour = ParsedHour
        /\ parsed.due_time.minute = ParsedMinute
        /\ parsed.due_time.second = 0
        /\ parsed.due_time.microsecond = 0
        /\ DtLess(reference, parsed.due_time)
        /\ DtLessEq(parsed.due_time, AddDay(reference))
        /\ parsed.due_time.day =
              IF ClockTimeHasPassed THEN reference.day + 1 ELSE reference.day

\* the command names the very time the reference is at: due a full day later
C15_Witness ==
    /\ ParseReturned
    /\ parsed.due_time = AddDay(reference)

\* ---------------------------------------------------------------- C16
\* the call has raised ValueError with this text
ParseRaised(text) == parsed = ValueError(text)

\* the trigger phrase is in the normalized command
HasTrigger == Find(Normalized(command), Trigger) # 0 - 1

\* the time expression the parser settles on: the colon pattern's match if it
\* has one, else the loose pattern's
ColonMatch == ColonSearch(Normalized(command))
LooseMatch == SimpleSearch(Normalized(command))
SyntacticMatch == IF ColonMatch # NoMatch THEN ColonMatch ELSE LooseMatch

\* C16: the parser never returns a reminder with an hour outside 0..23 or a
\* minute outside 0..59.  The checks come in the order trigger, syntactic match
\* (the colon pattern before the loose one), range of the hour, range of the
\* minute, and each failure has a text of its own.
C16_OutOfRangeTimeIsRejected ==
    /\ Cardinality({NoTriggerText, NoTimeText, BadHourText, BadMinuteText}) = 4
    /\ ParseReturned =>
          parsed.due_time.hour \in 0..23 /\ parsed.due_time.minute \in 0..59
    /\ parsed # NotParsed =>
          IF ~HasTrigger THEN ParseRaised(NoTriggerText)
          ELSE IF SyntacticMatch = NoMatch THEN ParseRaised(NoTimeText)
          ELSE IF HourOf(SyntacticMatch) \notin 0..23 THEN ParseRaised(BadHourText)
          ELSE IF MinuteOf(SyntacticMatch) \notin 0..59 THEN ParseRaised(BadMinuteText)
          ELSE /\ ParseReturned
               /\ parsed.due_time.hour = HourOf(SyntacticMatch)
               /\ parsed.due_time.minute = MinuteOf(SyntacticMatch)

\* a colon time with a good hour and a minute out of range has been rejected as
\* an invalid minute
C16_Witness ==
    /\ ParseRaised(BadMinuteText)
    /\ ColonMatch # NoMatch
    /\ HourOf(ColonMatch) \in 0..23

\* ---------------------------------------------------------------- C17
\* the part of the normalized command after the trigger phrase
AfterTrigger ==
    SliceFrom(Normalized(command), Find(Normalized(command), Trigger) + Len(Trigger))

\* C17: the parse fails when the trigger phrase is absent, and when no time
\* expression occurs after the trigger phrase (one that occurs only before it
\* does not make the command parse).
C17_TimeMustFollowTrigger ==
    parsed # NotParsed =>
        ((~HasTrigger \/ TimeMatch(AfterTrigger) = NoMatch) => parsed.kind = "raised")

\* what the code does give: without the trigger phrase, or without a time
\* expression anywhere in the command, the parse fails
NoTriggerOrNoTimeFails ==
    parsed # NotParsed =>
        ((~HasTrigger \/ SyntacticMatch = NoMatch) => parsed.kind = "raised")

\* ---------------------------------------------------------------- C20
\* the characters of the original command that follow the end of the trigger
\* phrase (the phrase found without regard to case)
FollowsTrigger ==
    SliceFrom(command, Find(Lower(command), Trigger) + Len(Trigger))

\* C20: the message is built from the characters of the original command that
\* follow the trigger phrase, minus the time fragment: the span the parser
\* cuts, at the offset it computed on the lowercased, trimmed command, is that
\* part of the command, and the message returned is the one built from it.
C20_MessageFollowsTrigger ==
    ParseReturned =>
        /\ MessageOriginal(command) = FollowsTrigger
        /\ parsed.message =
              CleanMessage(ExciseFragment(FollowsTrigger,
                  Slice(Normalized(command), SyntacticMatch.start, SyntacticMatch.end)))

\* what the code does give: the claim for commands that do not start with a blank
MessageFollowsTriggerUnlessLeadingBlank ==
    (ParseReturned /\ ~IsSpace(command[1])) =>
        /\ MessageOriginal(command) = FollowsTrigger
        /\ parsed.message =
              CleanMessage(ExciseFragment(FollowsTrigger,
                  Slice(Normalized(command), SyntacticMatch.start, SyntacticMatch.end)))

====
